---- MODULE Spec2Model ----
(***************************************************************************)
(* Model of the policy resolution code of the expense verification         *)
(* service: endpoints/policyStore.py (get_policy, the two module-level     *)
(* caches, the config based fallback, invalidate_cache), the two request   *)
(* handlers that call it (endpoints/policyValidator.py and                 *)
(* endpoints/enrichCategory.py) and utils/retry_handler.py (CircuitBreaker *)
(* and retry_on_network_error) as used by                                  *)
(* ConfluenceClient.fetch_policy_data.                                     *)
(*                                                                         *)
(* Time is time.time() in whole seconds.  A call of get_policy is split    *)
(* where it reads or writes the module-level dictionaries: the cache       *)
(* look-up at its start, the remote fetch with the assembly (no shared     *)
(* state), the write of policy_cache, the write of _last_known_good, and   *)
(* the fallback chain.  Calls of several requests interleave at these      *)
(* points; the code takes no lock.                                         *)
(***************************************************************************)
EXTENDS Integers, Sequences, FiniteSets, TLC

VARIABLES
    clock,            \* time.time()
    policy_cache,     \* policyStore.policy_cache: cache_key -> <<PolicyData, timestamp>>
    last_known_good,  \* policyStore._last_known_good: cache_key -> PolicyData
    artifact,         \* content of config/fallback_policy.json as the call read it
    pc,               \* position of each request inside its handler / get_policy
    company,          \* company_id argument of the running get_policy call
    now,              \* local variable now of the running get_policy call
    policy_data,      \* local variable policy_data (assembled, not yet returned)
    ret,              \* outcome of the get_policy call
    response,         \* HTTP response of the request handler
    outbound,         \* number of calls get_policy made to the Confluence client
    fetch_failures,   \* history: consecutive failed fetches of get_policy
    newest,           \* history: per company the successful fetch with the latest fetched_at
    after_safe_mode,  \* history: the last event on the company was a Safe Mode return
    breaker,          \* retry_handler.confluence_breaker
    bpc,              \* position of each fetch_policy_data call
    attempt,          \* loop variable attempt of the retry wrapper
    start_time,       \* local start_time of the retry wrapper
    last_exception,   \* local last_exception of the retry wrapper
    invoked,          \* history: invocations of _fetch made by the call
    sleeps,           \* history: asyncio.sleep calls made by the call
    wresult,          \* outcome of the fetch_policy_data call
    entered,          \* history: state of the breaker when the call entered CircuitBreaker.call
    consecutive,      \* history: failures of the wrapped operation since its last success
    max_attempts,     \* parameter max_attempts of the retry decorator
    sleep_until,      \* end of the asyncio.sleep the call is in
    asm_input,        \* what the remote source gives to one fetch cycle (index rows, detail pages)
    asm_output,       \* outcome of the try block of get_policy for asm_input
    ocr_input,        \* the SingleOCRValidationRequest given to validate_ocr
    ocr_output        \* what validate_ocr answers to ocr_input

storeVars == <<policy_cache, last_known_good, artifact, pc, company, now,
               policy_data, ret, response, outbound, fetch_failures, newest,
               after_safe_mode>>
breakerVars == <<breaker, bpc, attempt, start_time, last_exception, invoked,
                 sleeps, wresult, entered, consecutive, max_attempts, sleep_until>>
assemblyVars == <<asm_input, asm_output>>
ocrVars == <<ocr_input, ocr_output>>

vars == <<clock, storeVars, breakerVars, assemblyVars, ocrVars>>

----------------------------------------------------------------------------
(* Bounds of the model *)

MaxDays == 7          \* the clock of the store stops after this many days
MaxTicks == 5         \* the clock of the breaker stops after this many steps of 30 s
MaxFailures == 4      \* the operation stops failing at this failure_count
MaxAttemptsBound == 2 \* largest max_attempts of a retry decorator
MaxFetchFailures == 3    \* consecutive failed fetches that are counted
MaxRows == 3          \* longest index table of the assembly study

(* Program constants *)

SecondsPerHour == 3600
FreshHours == 24
StaleHours == 168
DefaultCacheTtl == 86400
\* the Safe Mode policy given the time to live of a fetched policy
FallbackCacheTtl_Day == DefaultCacheTtl

FallbackCacheTtl == 0
OtherMaxAmount == 100
DefaultMaxAmount == 100

Companies == {"acme"}
Requests == {"v1", "e1"}

\* the handler each request slot runs
Handler(r) == IF r = "v1" THEN "validate_policies_batch" ELSE "enrich_category"

\* use_fallback: both handlers call get_policy(company_id) with the default
use_fallback == TRUE

CacheKey(company_id) == <<"policy_", company_id>>

----------------------------------------------------------------------------
(* Strings of the model and the string functions the code applies to them *)

Strip(s) == IF s = " Other" THEN "Other" ELSE s

Lower(s) ==
    CASE s = "Meals" -> "meals"
      [] s = "Other" -> "other"
      [] s = "Food" -> "food"
      [] s = "Miscellaneous" -> "miscellaneous"
      [] s = "General" -> "general"
      [] s = "Uncategorized" -> "uncategorized"
      [] OTHER -> s

\* float(): the strings that parse, and their values
Numeric == {"50", "0"}
FloatOf(s) == IF s = "50" THEN 50 ELSE 0

----------------------------------------------------------------------------
(* The remote policy source as the Confluence client presents it *)

\* a row of the index table (ConfluenceClient.parse_policy_table)
IndexRow(category, max_amount, receipt) ==
    [Category |-> category, Aliases |-> {}, MaxAmount |-> max_amount,
     ReceiptRequired |-> receipt]

MealsRow == IndexRow("Meals", "50", "Yes")
OtherRow == IndexRow(" Other", "50", "No")
BadRow == IndexRow("Meals", "n/a", "Yes")
BlankRow == IndexRow("", "50", "Yes")

\* the result of ConfluenceClient.get_category_details for a category page
DetailPage(name) ==
    IF name = "Meals"
    THEN [raised |-> FALSE, aliases |-> {"Food"},
          has_max_amount |-> FALSE, max_amount |-> 0,
          vendor_keywords |-> <<"restaurant">>,
          time_based |-> <<[start_hour |-> 7, end_hour |-> 10,
                            subcategory |-> "Breakfast"]>>]
    ELSE [raised |-> FALSE, aliases |-> {},
          has_max_amount |-> FALSE, max_amount |-> 0,
          vendor_keywords |-> <<>>, time_based |-> <<>>]

DetailFailure == [raised |-> TRUE, aliases |-> {},
                  has_max_amount |-> FALSE, max_amount |-> 0,
                  vendor_keywords |-> <<>>, time_based |-> <<>>]

CategoryNames == {"Meals", "Other"}

\* what one fetch cycle gets from the remote source: the index call raises
\* (error names the exception) or returns rows; each detail call raises or
\* returns the page
IndexChoices == {<<>>, <<MealsRow>>, <<BadRow>>, <<BlankRow>>}
IndexErrors == {"ConnectionError", "HTTPError", "NotFound"}
TransientErrors == {"ConnectionError"}

DetailChoices ==
    {[n \in CategoryNames |-> IF n \in failing THEN DetailFailure ELSE DetailPage(n)] :
        failing \in {{}, {"Meals"}}}

FetchInputs ==
    {[index_raised |-> TRUE, error |-> e, index_data |-> <<>>,
      details |-> [n \in CategoryNames |-> DetailFailure]] : e \in IndexErrors}
    \cup
    {[index_raised |-> FALSE, error |-> "", index_data |-> i, details |-> d] :
        i \in IndexChoices, d \in DetailChoices}

----------------------------------------------------------------------------
(* policyStore.get_policy, lines 83-212: assembly of the fetched rows *)

BuildCategory(policy_row, category_name, details) ==
    [name |-> category_name,
     aliases |-> policy_row.Aliases \cup details.aliases,
     enrichment_rules |-> [time_based |-> details.time_based,
                           vendor_keywords |-> details.vendor_keywords],
     validation_rules |->
        [max_amount |-> IF details.has_max_amount THEN details.max_amount
                        ELSE FloatOf(policy_row.MaxAmount),
         requires_receipt |-> (policy_row.ReceiptRequired = "Yes")]]

\* the loop over index_data; raised is TRUE when float() of a row raises
RECURSIVE BuildCategories(_, _, _, _)
BuildCategories(index_data, details, i, categories) ==
    IF i > Len(index_data)
    THEN [raised |-> FALSE, categories |-> categories]
    ELSE LET policy_row == index_data[i]
             category_name == Strip(policy_row.Category)
         IN  IF category_name = ""
             THEN BuildCategories(index_data, details, i + 1, categories)
             ELSE IF details[category_name].raised
             THEN BuildCategories(index_data, details, i + 1, categories)
             ELSE IF policy_row.MaxAmount \notin Numeric
             THEN [raised |-> TRUE, categories |-> <<>>]
             ELSE BuildCategories(index_data, details, i + 1,
                      Append(categories,
                             BuildCategory(policy_row, category_name,
                                           details[category_name])))

OtherCategory ==
    [name |-> "Other",
     aliases |-> {"Miscellaneous", "General", "Uncategorized"},
     enrichment_rules |-> [time_based |-> <<>>, vendor_keywords |-> <<>>],
     validation_rules |-> [max_amount |-> OtherMaxAmount,
                           requires_receipt |-> TRUE]]

\* 'Other' appended whether or not the list has it
EnsureOther_Always(categories) == Append(categories, OtherCategory)

\* lines 180-197
EnsureOther(categories) ==
    IF \E i \in 1..Len(categories) : categories[i].name = "Other"
    THEN categories
    ELSE Append(categories, OtherCategory)

\* _validate_policy_data raises exactly for an empty list
ValidatePolicyDataRaises(categories) == categories = <<>>

MakePolicyData(company_id, categories, default_category, cache_ttl) ==
    [company_id |-> company_id, categories |-> categories,
     default_category |-> default_category, cache_ttl |-> cache_ttl]

\* the try block validating the categories before 'Other' is synthesized
FetchAndAssemble_ValidateFirst(company_id, in) ==
    IF in.index_raised
    THEN [raised |-> TRUE, error |-> in.error,
          policy_data |-> MakePolicyData(company_id, <<>>, "", 0)]
    ELSE LET built == BuildCategories(in.index_data, in.details, 1, <<>>)
             categories == EnsureOther(built.categories)
         IN  IF built.raised \/ ValidatePolicyDataRaises(built.categories)
             THEN [raised |-> TRUE, error |-> "ValueError",
                   policy_data |-> MakePolicyData(company_id, <<>>, "", 0)]
             ELSE [raised |-> FALSE, error |-> "",
                   policy_data |-> MakePolicyData(company_id, categories,
                                                  "Other", DefaultCacheTtl)]

\* the whole try block up to the PolicyData, for one result of the remote source
FetchAndAssemble(company_id, in) ==
    IF in.index_raised
    THEN [raised |-> TRUE, error |-> in.error,
          policy_data |-> MakePolicyData(company_id, <<>>, "", 0)]
    ELSE LET built == BuildCategories(in.index_data, in.details, 1, <<>>)
             categories == EnsureOther(built.categories)
         IN  IF built.raised \/ ValidatePolicyDataRaises(categories)
             THEN [raised |-> TRUE, error |-> "ValueError",
                   policy_data |-> MakePolicyData(company_id, <<>>, "", 0)]
             ELSE [raised |-> FALSE, error |-> "",
                   policy_data |-> MakePolicyData(company_id, categories,
                                                  "Other", DefaultCacheTtl)]

----------------------------------------------------------------------------
(* policyStore._load_fallback_policy_from_config *)

FallbackCategoryDict(name) ==
    [name |-> name, aliases |-> {},
     enrichment_rules |-> [time_based |-> <<>>, vendor_keywords |-> <<>>],
     validation_rules |-> [max_amount |-> DefaultMaxAmount,
                           requires_receipt |-> TRUE]]

\* config/fallback_policy.json: absent, not JSON, or a dictionary (with a
\* default category in its list, with an empty list, with a default category
\* that is not in its list)
ArtifactChoices ==
    {[exists |-> FALSE, parses |-> FALSE, categories |-> <<>>,
      default_category |-> "Other"],
     [exists |-> TRUE, parses |-> FALSE, categories |-> <<>>,
      default_category |-> "Other"],
     [exists |-> TRUE, parses |-> TRUE,
      categories |-> <<FallbackCategoryDict("Other")>>,
      default_category |-> "Other"],
     [exists |-> TRUE, parses |-> TRUE, categories |-> <<>>,
      default_category |-> "Other"],
     [exists |-> TRUE, parses |-> TRUE,
      categories |-> <<FallbackCategoryDict("Meals")>>,
      default_category |-> "Other"]}

\* the loader answering a missing or unreadable file with an empty policy
LoadFallbackPolicyFromConfig_Silent(company_id, file) ==
    IF ~file.exists \/ ~file.parses
    THEN [raised |-> FALSE, error |-> "",
          policy_data |-> MakePolicyData(company_id, <<>>, "Other",
                                         FallbackCacheTtl)]
    ELSE [raised |-> FALSE, error |-> "",
          policy_data |-> MakePolicyData(company_id, file.categories,
                                         file.default_category,
                                         FallbackCacheTtl)]

LoadFallbackPolicyFromConfig(company_id, file) ==
    IF ~file.exists
    THEN [raised |-> TRUE, error |-> "FileNotFoundError",
          policy_data |-> MakePolicyData(company_id, <<>>, "", 0)]
    ELSE IF ~file.parses
    THEN [raised |-> TRUE, error |-> "ValueError",
          policy_data |-> MakePolicyData(company_id, <<>>, "", 0)]
    ELSE [raised |-> FALSE, error |-> "",
          policy_data |-> MakePolicyData(company_id, file.categories,
                                         file.default_category,
                                         FallbackCacheTtl)]

----------------------------------------------------------------------------
(* Python dictionaries *)

EmptyDict == [k \in {} |-> 0]
Put(d, key, value) == [k \in DOMAIN d \cup {key} |-> IF k = key THEN value ELSE d[k]]
\* the first element: next(...) over a list, the first return of a loop
Min(S) == CHOOSE x \in S : \A y \in S : x <= y

\* del that empties the dictionary
Del_All(d, key) == [k \in {} |-> d[k]]

\* del d[key]
Del(d, key) == [k \in DOMAIN d \ {key} |-> d[k]]


----------------------------------------------------------------------------
(* policyStore.get_policy *)

NoPolicy == MakePolicyData("", <<>>, "", 0)
NoRet == [kind |-> "none", value |-> NoPolicy, path |-> "", error |-> ""]
Returned(value, path) == [kind |-> "value", value |-> value, path |-> path, error |-> ""]
Raised(error) == [kind |-> "raise", value |-> NoPolicy, path |-> "", error |-> error]

NoResponse == [status |-> 0, policy_validations |-> <<>>, suggested_category |-> "",
               rule_matched |-> <<>>, fallback_used |-> FALSE]

\* age_hours = (now - timestamp) / 3600; age_hours < hours
AgeBelow(n, timestamp, hours) == (n - timestamp) < hours * SecondsPerHour

\* a look-up that takes every entry younger than 7 days for fresh
FreshHit_Week(cache, company_id, n) ==
    /\ CacheKey(company_id) \in DOMAIN cache
    /\ AgeBelow(n, cache[CacheKey(company_id)][2], StaleHours)

\* lines 59-63: the entry of the company is in the cache and younger than 24 hours
FreshHit(cache, company_id, n) ==
    /\ CacheKey(company_id) \in DOMAIN cache
    /\ AgeBelow(n, cache[CacheKey(company_id)][2], FreshHours)

\* lines 240-244: the entry of the company is in the cache and younger than 7 days
StaleUsable(cache, company_id, n) ==
    /\ CacheKey(company_id) \in DOMAIN cache
    /\ AgeBelow(n, cache[CacheKey(company_id)][2], StaleHours)

\* the history of the newest successful fetch: what the cache would hold if
\* the later fetched_at always won
NewerWins(d, key, value) ==
    IF key \in DOMAIN d /\ d[key][2] > value[2] THEN d ELSE Put(d, key, value)

\* lines 53-69: a handler calls get_policy(company_id); now is read and the
\* fresh cache is looked up
Begin(r, company_id) ==
    /\ pc[r] = "idle"
    /\ company' = [company EXCEPT ![r] = company_id]
    /\ IF FreshHit(policy_cache, company_id, clock)
       THEN /\ ret' = [ret EXCEPT ![r] =
                         Returned(policy_cache[CacheKey(company_id)][1], "FRESH")]
            /\ now' = now
            /\ pc' = [pc EXCEPT ![r] = "done"]
       ELSE /\ ret' = ret
            /\ now' = [now EXCEPT ![r] = clock]
            /\ pc' = [pc EXCEPT ![r] = "fetch"]
    /\ after_safe_mode' = [after_safe_mode EXCEPT ![company_id] = FALSE]
    /\ UNCHANGED <<clock, assemblyVars, ocrVars, policy_cache, last_known_good, artifact, policy_data,
                   response, outbound, fetch_failures, newest, breakerVars>>

\* lines 74-212: the index and the detail pages are fetched and assembled
FetchSucceeds(r) ==
    /\ pc[r] = "fetch"
    /\ \E in \in FetchInputs :
         LET a == FetchAndAssemble(company[r], in)
         IN  /\ ~a.raised
             /\ policy_data' = [policy_data EXCEPT ![r] = a.policy_data]
    /\ outbound' = [outbound EXCEPT ![r] = @ + 1]
    /\ fetch_failures' = 0
    /\ pc' = [pc EXCEPT ![r] = "write_fresh"]
    /\ UNCHANGED <<clock, assemblyVars, ocrVars, policy_cache, last_known_good, artifact, company, now,
                   ret, response, newest, after_safe_mode, breakerVars>>

\* the except clause catching transient errors only: any other error leaves
\* get_policy
FetchFails_Propagates(r) ==
    /\ pc[r] = "fetch"
    /\ \E in \in FetchInputs :
         LET a == FetchAndAssemble(company[r], in)
         IN  /\ a.raised
             /\ fetch_failures' =
                   IF a.error \in TransientErrors
                   THEN (IF fetch_failures < MaxFetchFailures
                         THEN fetch_failures + 1 ELSE MaxFetchFailures)
                   ELSE 0
             /\ IF a.error \in TransientErrors
                THEN pc' = [pc EXCEPT ![r] = "fallback"] /\ ret' = ret
                ELSE /\ pc' = [pc EXCEPT ![r] = "done"]
                     /\ ret' = [ret EXCEPT ![r] = Raised(a.error)]
    /\ outbound' = [outbound EXCEPT ![r] = @ + 1]
    /\ UNCHANGED <<clock, assemblyVars, ocrVars, policy_cache, last_known_good, artifact, company, now,
                   policy_data, response, newest, after_safe_mode,
                   breakerVars>>

\* lines 74-233: the index call, float() of a row or the validation raises
FetchFails(r) ==
    /\ pc[r] = "fetch"
    /\ \E in \in FetchInputs :
         LET a == FetchAndAssemble(company[r], in)
         IN  /\ a.raised
             /\ fetch_failures' =
                   IF a.error \in TransientErrors
                   THEN (IF fetch_failures < MaxFetchFailures
                         THEN fetch_failures + 1 ELSE MaxFetchFailures)
                   ELSE 0
    /\ outbound' = [outbound EXCEPT ![r] = @ + 1]
    /\ pc' = [pc EXCEPT ![r] = "fallback"]
    /\ UNCHANGED <<clock, assemblyVars, ocrVars, policy_cache, last_known_good, artifact, company, now,
                   policy_data, ret, response, newest, after_safe_mode,
                   breakerVars>>

\* line 215
WriteFresh(r) ==
    /\ pc[r] = "write_fresh"
    /\ policy_cache' = Put(policy_cache, CacheKey(company[r]),
                           <<policy_data[r], now[r]>>)
    /\ newest' = NewerWins(newest, CacheKey(company[r]), <<policy_data[r], now[r]>>)
    /\ after_safe_mode' = [after_safe_mode EXCEPT ![company[r]] = FALSE]
    /\ pc' = [pc EXCEPT ![r] = "write_lkg"]
    /\ UNCHANGED <<clock, assemblyVars, ocrVars, last_known_good, artifact, company, now, policy_data,
                   ret, response, outbound, fetch_failures, breakerVars>>

\* lines 218-226
WriteLastKnownGood(r) ==
    /\ pc[r] = "write_lkg"
    /\ last_known_good' = Put(last_known_good, CacheKey(company[r]), policy_data[r])
    /\ ret' = [ret EXCEPT ![r] = Returned(policy_data[r], "FETCHED")]
    /\ now' = [now EXCEPT ![r] = 0]
    /\ policy_data' = [policy_data EXCEPT ![r] = NoPolicy]
    /\ pc' = [pc EXCEPT ![r] = "done"]
    /\ UNCHANGED <<clock, assemblyVars, ocrVars, policy_cache, artifact, company, response, outbound,
                   fetch_failures, newest, after_safe_mode, breakerVars>>

\* the except block with the last-known-good entry tried before the stale entry
FallbackChain_LkgFirst(cache, lkg, file, company_id, n) ==
    IF use_fallback /\ CacheKey(company_id) \in DOMAIN lkg
    THEN Returned(lkg[CacheKey(company_id)], "LAST_KNOWN_GOOD")
    ELSE IF StaleUsable(cache, company_id, n)
    THEN Returned(cache[CacheKey(company_id)][1], "STALE")
    ELSE LET loaded == LoadFallbackPolicyFromConfig(company_id, file)
         IN  IF loaded.raised THEN Raised(loaded.error)
             ELSE Returned(loaded.policy_data, "SAFE_MODE")

\* lines 228-268: the outcome of the except block
FallbackChain(cache, lkg, file, company_id, n) ==
    IF StaleUsable(cache, company_id, n)
    THEN Returned(cache[CacheKey(company_id)][1], "STALE")
    ELSE IF use_fallback /\ CacheKey(company_id) \in DOMAIN lkg
    THEN Returned(lkg[CacheKey(company_id)], "LAST_KNOWN_GOOD")
    ELSE LET loaded == LoadFallbackPolicyFromConfig(company_id, file)
         IN  IF loaded.raised THEN Raised(loaded.error)
             ELSE Returned(loaded.policy_data, "SAFE_MODE")

NotRead == [exists |-> FALSE, parses |-> FALSE, categories |-> <<>>,
            default_category |-> ""]

\* the fallback loader is reached
ReadsArtifact(cache, lkg, company_id, n) ==
    /\ ~StaleUsable(cache, company_id, n)
    /\ ~(use_fallback /\ CacheKey(company_id) \in DOMAIN lkg)

Fallback(r) ==
    /\ pc[r] = "fallback"
    /\ \E file \in ArtifactChoices :
          /\ ret' = [ret EXCEPT ![r] =
                       FallbackChain(policy_cache, last_known_good, file,
                                     company[r], now[r])]
          /\ artifact' = [artifact EXCEPT ![r] =
                            IF ReadsArtifact(policy_cache, last_known_good,
                                             company[r], now[r])
                            THEN file ELSE NotRead]
    /\ after_safe_mode' = [after_safe_mode EXCEPT ![company[r]] =
                             (ret'[r].path = "SAFE_MODE")]
    /\ now' = [now EXCEPT ![r] = 0]
    /\ pc' = [pc EXCEPT ![r] = "done"]
    /\ UNCHANGED <<clock, assemblyVars, ocrVars, policy_cache, last_known_good, company,
                   policy_data, response, outbound, fetch_failures, newest,
                   breakerVars>>

\* policyStore.invalidate_cache(company_id)
InvalidateCompany(company_id) ==
    /\ CacheKey(company_id) \in DOMAIN policy_cache
    /\ policy_cache' = Del(policy_cache, CacheKey(company_id))
    /\ newest' = Del(newest, CacheKey(company_id))
    /\ UNCHANGED <<clock, assemblyVars, ocrVars, last_known_good, artifact, pc, company, now,
                   policy_data, ret, response, outbound, fetch_failures,
                   after_safe_mode, breakerVars>>

\* invalidate_cache() clearing the last-known-good entries as well
InvalidateAll_Lkg ==
    /\ policy_cache # EmptyDict
    /\ policy_cache' = EmptyDict
    /\ last_known_good' = EmptyDict
    /\ newest' = EmptyDict
    /\ UNCHANGED <<clock, assemblyVars, ocrVars, artifact, pc, company, now,
                   policy_data, ret, response, outbound, fetch_failures,
                   after_safe_mode, breakerVars>>

\* policyStore.invalidate_cache()
InvalidateAll ==
    /\ policy_cache # EmptyDict
    /\ policy_cache' = EmptyDict
    /\ newest' = EmptyDict
    /\ UNCHANGED <<clock, assemblyVars, ocrVars, last_known_good, artifact, pc, company, now,
                   policy_data, ret, response, outbound, fetch_failures,
                   after_safe_mode, breakerVars>>

----------------------------------------------------------------------------
(* endpoints/policyValidator.py: validate_policies_batch *)

Invoice(category, amount, has_receipt) ==
    [category |-> category, amount |-> amount, has_receipt |-> has_receipt]

\* request.invoices of the requests the model sends
InvoiceChoices ==
    {<<>>,
     <<Invoice("meals", 60, TRUE), Invoice("Other", 10, FALSE),
       Invoice("unknown", 10, TRUE), Invoice("Travel", 10, TRUE)>>}

\* lines 42-49: index of the first category with that name, 0 for None
FoundCat(policy, invoice) ==
    LET hits == {i \in 1..Len(policy.categories) :
                    Lower(policy.categories[i].name) = Lower(invoice.category)}
    IN  IF hits = {} THEN 0 ELSE Min(hits)

\* lines 36-118: the validation result of one invoice
ValidateInvoice(policy, invoice) ==
    LET found == FoundCat(policy, invoice)
        rules == policy.categories[found].validation_rules
        violations ==
            IF found = 0
            THEN (IF Lower(invoice.category) = "unknown"
                  THEN <<"CATEGORY_UNKNOWN">>
                  ELSE <<"CATEGORY_UNSUPPORTED">>)
            ELSE (IF rules.max_amount > 0 /\ invoice.amount > rules.max_amount
                  THEN <<"MAX_AMOUNT_EXCEEDED">> ELSE <<>>)
                 \o
                 (IF rules.requires_receipt /\ ~invoice.has_receipt
                     /\ invoice.amount > 0
                  THEN <<"RECEIPT_MISSING">> ELSE <<>>)
    IN  [compliant |-> (Len(violations) = 0),
         violations |-> violations,
         category_found |-> (found # 0)]

\* lines 22-125: the response for the outcome of get_policy
ValidatePoliciesBatch(outcome, invoices) ==
    IF outcome.kind = "raise"
    THEN [NoResponse EXCEPT !.status = 200, !.policy_validations = <<>>]
    ELSE [NoResponse EXCEPT
            !.status = 200,
            !.policy_validations =
                [i \in 1..Len(invoices) |-> ValidateInvoice(outcome.value, invoices[i])]]

----------------------------------------------------------------------------
(* endpoints/enrichCategory.py: enrich_category *)

EnrichRequest(existing_category, vendor, time) ==
    [existing_category |-> existing_category, vendor |-> vendor, time |-> time]

\* the requests the model sends; "" stands for None
EnrichChoices ==
    {EnrichRequest("food", "", ""),
     EnrichRequest("Travel", "Restaurant Roma", ""),
     EnrichRequest("", "ACME Hardware", "08:30")}

\* utils/policy_helpers.py
FindCategoryByName(policy, category_name) ==
    LET category_lower == Lower(category_name)
        hits == {i \in 1..Len(policy.categories) :
                    \/ Lower(policy.categories[i].name) = category_lower
                    \/ \E alias \in policy.categories[i].aliases :
                          Lower(alias) = category_lower}
    IN  IF category_name = "" \/ hits = {} THEN 0 ELSE Min(hits)

\* keyword.lower().strip() in the normalized vendor
KeywordInVendor(keyword, vendor) ==
    keyword = "restaurant" /\ vendor = "Restaurant Roma"

MatchesVendorKeywords(vendor, keywords) ==
    /\ vendor # ""
    /\ keywords # <<>>
    /\ \E i \in 1..Len(keywords) : KeywordInVendor(keywords[i], vendor)

\* int(time_clean.split(":")[0]); -1 when int() raises
HourOf(time_str) == IF time_str = "08:30" THEN 8 ELSE -1

MatchesTimeRule(time_str, time_rule) ==
    /\ HourOf(time_str) # -1
    /\ time_rule.start_hour <= HourOf(time_str)
    /\ HourOf(time_str) <= time_rule.end_hour

\* lines 45-210: the response for the outcome of get_policy
EnrichCategory(outcome, request) ==
    IF outcome.kind = "raise"
    THEN [NoResponse EXCEPT !.status = 500]
    ELSE
    LET policy == outcome.value
        cats == policy.categories
        existing == FindCategoryByName(policy, request.existing_category)
        vendor_hits == {i \in 1..Len(cats) :
                          /\ cats[i].enrichment_rules.vendor_keywords # <<>>
                          /\ MatchesVendorKeywords(request.vendor,
                                 cats[i].enrichment_rules.vendor_keywords)}
        time_hits == {<<i, j>> \in (1..Len(cats)) \X (1..1) :
                          /\ j <= Len(cats[i].enrichment_rules.time_based)
                          /\ MatchesTimeRule(request.time,
                                 cats[i].enrichment_rules.time_based[j])}
    IN  IF request.existing_category # "" /\ existing # 0
        THEN [NoResponse EXCEPT !.status = 200,
                !.suggested_category = cats[existing].name,
                !.rule_matched = <<"USER_PROVIDED">>]
        ELSE IF request.vendor # "" /\ vendor_hits # {}
        THEN [NoResponse EXCEPT !.status = 200,
                !.suggested_category = cats[Min(vendor_hits)].name,
                !.rule_matched = <<"VENDOR_TYPE", cats[Min(vendor_hits)].name>>]
        ELSE IF request.time # "" /\ time_hits # {}
        THEN LET hit == CHOOSE h \in time_hits :
                            \A g \in time_hits : h[1] <= g[1]
             IN  [NoResponse EXCEPT !.status = 200,
                    !.suggested_category = cats[hit[1]].name,
                    !.rule_matched =
                        <<"TIME_BASED",
                          cats[hit[1]].enrichment_rules.time_based[hit[2]].subcategory>>]
        ELSE [NoResponse EXCEPT !.status = 200,
                !.suggested_category = policy.default_category,
                !.rule_matched = <<"DEFAULT_FALLBACK">>,
                !.fallback_used = TRUE]

----------------------------------------------------------------------------
(* The handlers answer; the request slot becomes free *)

Respond(r) ==
    /\ pc[r] = "done"
    /\ IF Handler(r) = "validate_policies_batch"
       THEN \E invoices \in InvoiceChoices :
               response' = [response EXCEPT ![r] =
                              ValidatePoliciesBatch(ret[r], invoices)]
       ELSE \E request \in EnrichChoices :
               response' = [response EXCEPT ![r] = EnrichCategory(ret[r], request)]
    /\ ret' = [ret EXCEPT ![r] = NoRet]
    /\ artifact' = [artifact EXCEPT ![r] = NotRead]
    /\ pc' = [pc EXCEPT ![r] = "responded"]
    /\ UNCHANGED <<clock, assemblyVars, ocrVars, policy_cache, last_known_good, company, now,
                   policy_data, outbound, fetch_failures, newest,
                   after_safe_mode, breakerVars>>

Finish(r) ==
    /\ pc[r] = "responded"
    /\ pc' = [pc EXCEPT ![r] = "idle"]
    /\ company' = [company EXCEPT ![r] = ""]
    /\ response' = [response EXCEPT ![r] = NoResponse]
    /\ outbound' = [outbound EXCEPT ![r] = 0]
    /\ UNCHANGED <<clock, assemblyVars, ocrVars, policy_cache, last_known_good, artifact, now,
                   policy_data, ret, fetch_failures, newest, after_safe_mode,
                   breakerVars>>

\* time passes: a day, or six days after the first day
TickDay ==
    /\ clock < MaxDays * 24 * SecondsPerHour
    /\ clock' = clock + (IF clock = 24 * SecondsPerHour THEN 6 ELSE 1)
                          * 24 * SecondsPerHour
    /\ UNCHANGED <<storeVars, breakerVars, assemblyVars, ocrVars>>

----------------------------------------------------------------------------
(* utils/retry_handler.py: CircuitBreaker and retry_on_network_error, as   *)
(* ConfluenceClient.fetch_policy_data combines them: the retry wrapper     *)
(* calls fetch_policy_data, which calls confluence_breaker.call(_fetch).   *)
(* A call is split where it blocks: while _fetch runs and while the        *)
(* wrapper sleeps.                                                         *)

FailureThreshold == 3
TimeoutDuration == 60
DefaultMaxAttempts == 2
DelaySeconds == 30
TimeoutSeconds == 120

Fetchers == {"f1", "f2"}

\* what _fetch does: it returns, or raises one of these
OpErrors == {"ConnectionError", "HTTPError", "ValueError", "Exception"}
\* caught by except (ConnectionError, TimeoutError, OSError); the exceptions
\* of requests derive from IOError
NetworkErrors == {"ConnectionError", "HTTPError"}
\* caught by except (ValueError, KeyError, AttributeError)
DeterministicErrors == {"ValueError"}

NoResult == [kind |-> "none", error |-> ""]

\* CircuitBreaker.call, lines 22-27: the check made in state OPEN
CooldownOver(b, t) == t - b.last_failure_time > TimeoutDuration
\* a breaker that lets every call through
Rejects_Never(b, t) == FALSE

\* lines 22-27: the call is refused
Rejects(b, t) == b.state = "OPEN" /\ ~CooldownOver(b, t)
\* a breaker that leaves OPEN on every call, before it looks at the cooldown
AfterEntry_Eager(b, t) ==
    IF b.state = "OPEN" THEN [b EXCEPT !.state = "HALF_OPEN"] ELSE b

\* lines 22-25: the state the call leaves behind on entry
AfterEntry(b, t) ==
    IF b.state = "OPEN" /\ CooldownOver(b, t)
    THEN [b EXCEPT !.state = "HALF_OPEN"] ELSE b

\* a success branch that resets the counter and never closes the breaker
OnSuccess_NoClose(b) == [b EXCEPT !.failure_count = 0]

\* lines 32-38
OnSuccess(b) ==
    [b EXCEPT !.state = IF b.state = "HALF_OPEN" THEN "CLOSED" ELSE b.state,
              !.failure_count = 0]

\* the failure handler opening one failure late
OnFailure_Late(b, t) ==
    [b EXCEPT !.failure_count = b.failure_count + 1,
              !.last_failure_time = t,
              !.state = IF b.failure_count + 1 > FailureThreshold
                        THEN "OPEN" ELSE b.state]

\* lines 40-53
OnFailure(b, t) ==
    [b EXCEPT !.failure_count = b.failure_count + 1,
              !.last_failure_time = t,
              !.state = IF b.failure_count + 1 >= FailureThreshold
                        THEN "OPEN" ELSE b.state]

\* the wrapper treating every exception as a network error
RetryEligible_All(e) == e \in OpErrors

\* line 109: except (ConnectionError, TimeoutError, OSError)
RetryEligible(e) == e \in NetworkErrors

\* a wrapper that keeps the first network error it caught
Remember_First(previous, e) == IF previous = "" THEN e ELSE previous

\* line 111: last_exception = e
Remember(previous, e) == e

\* the wrapper is called: lines 77-78
StartFetch(f) ==
    /\ bpc[f] = "idle"
    /\ start_time' = [start_time EXCEPT ![f] = clock]
    /\ last_exception' = [last_exception EXCEPT ![f] = ""]
    /\ attempt' = [attempt EXCEPT ![f] = 0]
    /\ bpc' = [bpc EXCEPT ![f] = "loop"]
    /\ UNCHANGED <<clock, assemblyVars, ocrVars, storeVars, breaker, invoked, sleeps, wresult, entered,
                   consecutive, max_attempts, sleep_until>>

\* lines 80-104 and CircuitBreaker.call lines 22-30: one pass of the loop up
\* to the call of _fetch
Attempt(f) ==
    /\ bpc[f] = "loop"
    /\ IF attempt[f] >= max_attempts
       THEN \* range(max_attempts) is exhausted: raise last_exception
            /\ wresult' = [wresult EXCEPT ![f] =
                             [kind |-> "raise",
                              error |-> IF last_exception[f] = "" THEN "TypeError"
                                        ELSE last_exception[f]]]
            /\ bpc' = [bpc EXCEPT ![f] = "done"]
            /\ UNCHANGED <<breaker, invoked, entered>>
       ELSE IF clock - start_time[f] > TimeoutSeconds
       THEN /\ wresult' = [wresult EXCEPT ![f] =
                             [kind |-> "raise", error |-> "PlatformTimeout"]]
            /\ bpc' = [bpc EXCEPT ![f] = "done"]
            /\ UNCHANGED <<breaker, invoked, entered>>
       ELSE /\ invoked' = [invoked EXCEPT ![f] = @ + 1]
            /\ IF Rejects(breaker, clock)
               THEN \* the breaker raises Exception; the wrapper re-raises it
                    /\ wresult' = [wresult EXCEPT ![f] =
                                     [kind |-> "raise", error |-> "CircuitOpen"]]
                    /\ bpc' = [bpc EXCEPT ![f] = "done"]
                    /\ breaker' = AfterEntry(breaker, clock)
                    /\ UNCHANGED entered
               ELSE /\ breaker' = AfterEntry(breaker, clock)
                    /\ entered' = [entered EXCEPT ![f] = breaker'.state]
                    /\ bpc' = [bpc EXCEPT ![f] = "invoking"]
                    /\ wresult' = wresult
    /\ UNCHANGED <<clock, assemblyVars, ocrVars, storeVars, attempt, start_time, last_exception, sleeps,
                   consecutive, max_attempts, sleep_until>>

\* _fetch returns: CircuitBreaker.call lines 32-38, wrapper lines 106-107
OpSucceeds(f) ==
    /\ bpc[f] = "invoking"
    /\ breaker' = OnSuccess(breaker)
    /\ consecutive' = 0
    /\ wresult' = [wresult EXCEPT ![f] = [kind |-> "value", error |-> ""]]
    /\ entered' = [entered EXCEPT ![f] = ""]
    /\ bpc' = [bpc EXCEPT ![f] = "done"]
    /\ UNCHANGED <<clock, assemblyVars, ocrVars, storeVars, attempt, start_time, last_exception, invoked,
                   sleeps, max_attempts, sleep_until>>

\* _fetch raises e: CircuitBreaker.call lines 40-53, wrapper lines 109-138
OpFails(f, e) ==
    /\ bpc[f] = "invoking"
    /\ breaker.failure_count < MaxFailures
    /\ breaker' = OnFailure(breaker, clock)
    /\ consecutive' = consecutive + 1
    /\ entered' = [entered EXCEPT ![f] = ""]
    /\ IF RetryEligible(e)
       THEN /\ last_exception' =
                   [last_exception EXCEPT ![f] = Remember(last_exception[f], e)]
            /\ IF attempt[f] < max_attempts - 1
               THEN /\ sleeps' = [sleeps EXCEPT ![f] = @ + 1]
                    /\ sleep_until' = [sleep_until EXCEPT ![f] = clock + DelaySeconds]
                    /\ bpc' = [bpc EXCEPT ![f] = "sleeping"]
                    /\ UNCHANGED <<wresult, attempt>>
               ELSE \* last pass: the loop ends, raise last_exception
                    /\ attempt' = [attempt EXCEPT ![f] = @ + 1]
                    /\ wresult' = [wresult EXCEPT ![f] =
                                     [kind |-> "raise", error |-> last_exception'[f]]]
                    /\ bpc' = [bpc EXCEPT ![f] = "done"]
                    /\ UNCHANGED <<sleeps, sleep_until>>
       ELSE /\ wresult' = [wresult EXCEPT ![f] = [kind |-> "raise", error |-> e]]
            /\ bpc' = [bpc EXCEPT ![f] = "done"]
            /\ UNCHANGED <<last_exception, attempt, sleeps, sleep_until>>
    /\ UNCHANGED <<clock, assemblyVars, ocrVars, storeVars, start_time, invoked, max_attempts>>

\* asyncio.sleep(delay_seconds) is over: the next pass of the loop
WakeUp(f) ==
    /\ bpc[f] = "sleeping"
    /\ clock >= sleep_until[f]
    /\ attempt' = [attempt EXCEPT ![f] = @ + 1]
    /\ sleep_until' = [sleep_until EXCEPT ![f] = 0]
    /\ bpc' = [bpc EXCEPT ![f] = "loop"]
    /\ UNCHANGED <<clock, assemblyVars, ocrVars, storeVars, breaker, start_time, last_exception, invoked,
                   sleeps, wresult, entered, consecutive, max_attempts>>

\* the caller has the outcome
FinishFetch(f) ==
    /\ bpc[f] = "done"
    /\ bpc' = [bpc EXCEPT ![f] = "idle"]
    /\ attempt' = [attempt EXCEPT ![f] = 0]
    /\ start_time' = [start_time EXCEPT ![f] = 0]
    /\ last_exception' = [last_exception EXCEPT ![f] = ""]
    /\ invoked' = [invoked EXCEPT ![f] = 0]
    /\ sleeps' = [sleeps EXCEPT ![f] = 0]
    /\ wresult' = [wresult EXCEPT ![f] = NoResult]
    /\ UNCHANGED <<clock, assemblyVars, ocrVars, storeVars, breaker, entered, consecutive, max_attempts,
                   sleep_until>>

\* 30 seconds pass
Tick30 ==
    /\ clock < MaxTicks * DelaySeconds
    /\ clock' = clock + DelaySeconds
    /\ UNCHANGED <<storeVars, breakerVars, assemblyVars, ocrVars>>

InitBreakerVars ==
    /\ breaker = [state |-> "CLOSED", failure_count |-> 0, last_failure_time |-> 0]
    /\ bpc = [f \in Fetchers |-> "idle"]
    /\ attempt = [f \in Fetchers |-> 0]
    /\ start_time = [f \in Fetchers |-> 0]
    /\ last_exception = [f \in Fetchers |-> ""]
    /\ invoked = [f \in Fetchers |-> 0]
    /\ sleeps = [f \in Fetchers |-> 0]
    /\ wresult = [f \in Fetchers |-> NoResult]
    /\ entered = [f \in Fetchers |-> ""]
    /\ consecutive = 0
    /\ sleep_until = [f \in Fetchers |-> 0]

----------------------------------------------------------------------------
(* The policy store with its request handlers *)

\* no fetch cycle is under study
NoInput == [index_raised |-> FALSE, error |-> "", index_data |-> <<>>,
            details |-> [n \in {} |-> DetailFailure]]
NoAssembly == [raised |-> FALSE, error |-> "none",
               policy_data |-> MakePolicyData("", <<>>, "", 0)]

InitAssemblyVars ==
    /\ asm_input = NoInput
    /\ asm_output = NoAssembly

\* no call of validate_ocr is under study
NoOcrRequest == [total_amount |-> <<>>, employee_claim |-> 0, currency |-> ""]
NoOcrResponse == [status |-> 0, odoo_amount |-> <<>>, verified_amount |-> <<>>,
                  amount_matched |-> FALSE, discrepancy_amount |-> <<>>,
                  risk_level |-> ""]

InitOcrVars ==
    /\ ocr_input = NoOcrRequest
    /\ ocr_output = NoOcrResponse

InitStoreVars ==
    /\ policy_cache = EmptyDict
    /\ last_known_good = EmptyDict
    /\ artifact = [r \in Requests |-> NotRead]
    /\ pc = [r \in Requests |-> "idle"]
    /\ company = [r \in Requests |-> ""]
    /\ now = [r \in Requests |-> 0]
    /\ policy_data = [r \in Requests |-> NoPolicy]
    /\ ret = [r \in Requests |-> NoRet]
    /\ response = [r \in Requests |-> NoResponse]
    /\ outbound = [r \in Requests |-> 0]
    /\ fetch_failures = 0
    /\ newest = EmptyDict
    /\ after_safe_mode = [c \in Companies |-> FALSE]

Init ==
    /\ clock = 0
    /\ InitStoreVars
    /\ InitBreakerVars
    /\ InitAssemblyVars
    /\ InitOcrVars
    /\ max_attempts = DefaultMaxAttempts

Next ==
    \/ \E r \in Requests, company_id \in Companies : Begin(r, company_id)
    \/ \E r \in Requests : FetchSucceeds(r)
    \/ \E r \in Requests : FetchFails(r)
    \/ \E r \in Requests : WriteFresh(r)
    \/ \E r \in Requests : WriteLastKnownGood(r)
    \/ \E r \in Requests : Fallback(r)
    \/ \E r \in Requests : Respond(r)
    \/ \E r \in Requests : Finish(r)
    \/ \E company_id \in Companies : InvalidateCompany(company_id)
    \/ InvalidateAll
    \/ TickDay

Spec == Init /\ [][Next]_vars

----------------------------------------------------------------------------
(* The circuit breaker under concurrent calls of fetch_policy_data *)

InitBreaker ==
    /\ clock = 0
    /\ InitStoreVars
    /\ InitBreakerVars
    /\ InitAssemblyVars
    /\ InitOcrVars
    /\ max_attempts \in 0..MaxAttemptsBound

NextBreaker ==
    \/ \E f \in Fetchers : StartFetch(f)
    \/ \E f \in Fetchers : Attempt(f)
    \/ \E f \in Fetchers : OpSucceeds(f)
    \/ \E f \in Fetchers, e \in OpErrors : OpFails(f, e)
    \/ \E f \in Fetchers : WakeUp(f)
    \/ \E f \in Fetchers : FinishFetch(f)
    \/ Tick30

SpecBreaker == InitBreaker /\ [][NextBreaker]_vars

----------------------------------------------------------------------------
(* The circuit breaker over unbounded time.  Only differences of            *)
(* time.time() values are read (lines 23 and 81-82), so time passes by      *)
(* moving every stored time stamp 30 seconds into the past while clock      *)
(* stays 0; a time stamp older than every limit it is compared with stays   *)
(* where it is.  Fairness: time advances, every fetcher calls again and     *)
(* again, a running call takes its next step, and an invocation of _fetch   *)
(* that is not going to raise returns.                                      *)

Floor(x, lowest) == IF x < lowest THEN lowest ELSE x

\* 30 seconds pass
TickLive ==
    /\ breaker' = [breaker EXCEPT !.last_failure_time =
                      Floor(@ - DelaySeconds, 0 - (TimeoutDuration + DelaySeconds))]
    /\ start_time' = [f \in Fetchers |->
                        IF bpc[f] = "idle" THEN start_time[f]
                        ELSE Floor(start_time[f] - DelaySeconds,
                                   0 - (TimeoutSeconds + DelaySeconds))]
    /\ sleep_until' = [f \in Fetchers |-> Floor(sleep_until[f] - DelaySeconds, 0)]
    /\ UNCHANGED <<clock, assemblyVars, ocrVars, storeVars, bpc, attempt, last_exception,
                   invoked, sleeps, wresult, entered, consecutive, max_attempts>>

InitBreakerLive ==
    /\ clock = 0
    /\ InitStoreVars
    /\ InitBreakerVars
    /\ InitAssemblyVars
    /\ InitOcrVars
    /\ max_attempts = DefaultMaxAttempts

NextBreakerLive ==
    \/ \E f \in Fetchers : StartFetch(f)
    \/ \E f \in Fetchers : Attempt(f)
    \/ \E f \in Fetchers : OpSucceeds(f)
    \/ \E f \in Fetchers, e \in OpErrors : OpFails(f, e)
    \/ \E f \in Fetchers : WakeUp(f)
    \/ \E f \in Fetchers : FinishFetch(f)
    \/ TickLive

SpecBreakerLive ==
    /\ InitBreakerLive
    /\ [][NextBreakerLive]_vars
    /\ WF_vars(TickLive)
    /\ \A f \in Fetchers :
          /\ WF_vars(StartFetch(f))
          /\ WF_vars(Attempt(f))
          /\ WF_vars(OpSucceeds(f))
          /\ WF_vars(WakeUp(f))
          /\ WF_vars(FinishFetch(f))

----------------------------------------------------------------------------
(* The policy store with two companies, one call of get_policy at a time *)

Tenants == {"acme", "globex"}
TenantRequests == {"e1"}

InitTenants ==
    /\ clock = 0
    /\ policy_cache = EmptyDict
    /\ last_known_good = EmptyDict
    /\ artifact = [r \in Requests |-> NotRead]
    /\ pc = [r \in Requests |-> "idle"]
    /\ company = [r \in Requests |-> ""]
    /\ now = [r \in Requests |-> 0]
    /\ policy_data = [r \in Requests |-> NoPolicy]
    /\ ret = [r \in Requests |-> NoRet]
    /\ response = [r \in Requests |-> NoResponse]
    /\ outbound = [r \in Requests |-> 0]
    /\ fetch_failures = 0
    /\ newest = EmptyDict
    /\ after_safe_mode = [c \in Tenants |-> FALSE]
    /\ InitBreakerVars
    /\ InitAssemblyVars
    /\ InitOcrVars
    /\ max_attempts = DefaultMaxAttempts

NextTenants ==
    \/ \E r \in TenantRequests, company_id \in Tenants : Begin(r, company_id)
    \/ \E r \in TenantRequests : FetchSucceeds(r)
    \/ \E r \in TenantRequests : FetchFails(r)
    \/ \E r \in TenantRequests : WriteFresh(r)
    \/ \E r \in TenantRequests : WriteLastKnownGood(r)
    \/ \E r \in TenantRequests : Fallback(r)
    \/ \E r \in TenantRequests : Respond(r)
    \/ \E r \in TenantRequests : Finish(r)
    \/ \E company_id \in Tenants : InvalidateCompany(company_id)
    \/ InvalidateAll
    \/ TickDay

SpecTenants == InitTenants /\ [][NextTenants]_vars

----------------------------------------------------------------------------
(* One fetch cycle of get_policy, lines 74-212, for every result of the     *)
(* remote source up to MaxRows index rows                                   *)

TravelRow == IndexRow("Travel", "0", "No")

AssemblyRows == {MealsRow, TravelRow, OtherRow, BlankRow, BadRow}
AssemblyNames == {"Meals", "Travel", "Other"}

\* the index tables of up to MaxRows rows
AssemblyIndexes ==
    UNION {[1..n -> AssemblyRows] : n \in 0..MaxRows}

\* each detail page is fetched or its fetch fails
AssemblyDetails ==
    {[n \in AssemblyNames |-> IF n \in failing THEN DetailFailure ELSE DetailPage(n)] :
        failing \in SUBSET AssemblyNames}

AssemblyInputs ==
    {[index_raised |-> FALSE, error |-> "", index_data |-> i, details |-> d] :
        i \in AssemblyIndexes, d \in AssemblyDetails}

InitAssemble ==
    /\ clock = 0
    /\ InitStoreVars
    /\ InitBreakerVars
    /\ max_attempts = DefaultMaxAttempts
    /\ asm_input \in AssemblyInputs
    /\ asm_output = NoAssembly
    /\ InitOcrVars

\* lines 74-212 run on asm_input
Assemble ==
    /\ asm_output = NoAssembly
    /\ asm_output' = FetchAndAssemble("acme", asm_input)
    /\ UNCHANGED <<clock, storeVars, breakerVars, asm_input, ocrVars>>

NextAssemble == Assemble

SpecAssemble == InitAssemble /\ [][NextAssemble]_vars

----------------------------------------------------------------------------
(* endpoints/OCRValidator.py: validate_ocr on one request.  Amounts are     *)
(* floats in the code; the model holds them in cents.  Every amount of the  *)
(* model has at most two decimals, so round(x, 2) gives x back and          *)
(* round(abs(x - y), 2) is the exact difference in cents.  The unrounded    *)
(* float abs(x - y) is the exact difference plus or minus a rounding error  *)
(* far below a cent, which decides a comparison only when the exact         *)
(* difference equals the threshold.                                         *)

\* amounts in cents an invoice or a claim carries
OcrAmounts == {0, 304, 305, 804, 805, 1401, 2802, 4999, 5000, 6401, 8049, 8050,
               8550, 8551, 10000, 12802, 15000}
\* employee_claim may also be negative or above the limit
ClaimChoices == OcrAmounts \cup {-100, 100000100}
OcrCurrencies == {"CHF", "JPY", "XXX"}

\* utils/validators.py VALID_CURRENCIES, as far as the model draws currencies
VALID_CURRENCIES == {"CHF", "JPY"}
ZERO_DECIMAL_CURRENCIES == {"JPY"}
\* validate_amount: 0 <= amount <= 1_000_000
MaxAmountCents == 100000000

\* round(amount, 0) of Python: to the nearest whole unit, a half to the even one
RoundUnits(c) ==
    LET q == c \div 100
        r == c % 100
    IN  IF r < 50 THEN q * 100
        ELSE IF r > 50 THEN (q + 1) * 100
        ELSE IF q % 2 = 0 THEN q * 100 ELSE (q + 1) * 100

\* utils/validators.py normalize_amount
normalize_amount(amount, currency) ==
    IF currency \in ZERO_DECIMAL_CURRENCIES THEN RoundUnits(amount) ELSE amount

\* IEEE-754 binary64: the pairs <<x, y>> of amounts of the model, x and y in
\* cents, whose float difference abs(x/100 - y/100) is greater than the exact
\* difference, among the pairs that differ by exactly 5.00, 50.00 or 100.00
\* (8.05 - 3.05 = 5.000000000000001, 64.01 - 14.01 = 50.00000000000001,
\* 128.02 - 28.02 = 100.00000000000001; 8.04 - 3.04 = 4.999999999999999)
FloatDiffAbove == {<<305, 805>>, <<805, 305>>, <<1401, 6401>>, <<6401, 1401>>,
                   <<2802, 12802>>, <<12802, 2802>>}

AbsCents(x, y) == IF x >= y THEN x - y ELSE y - x

\* abs(odoo_amt - claimed_amt) > units, on floats
DiffGreater(x, y, units) ==
    \/ AbsCents(x, y) > units * 100
    \/ AbsCents(x, y) = units * 100 /\ <<x, y>> \in FloatDiffAbove

\* lines 100-107
RiskOf(x, y) ==
    IF DiffGreater(x, y, 100) THEN "CRITICAL"
    ELSE IF DiffGreater(x, y, 50) THEN "HIGH"
    ELSE IF DiffGreater(x, y, 5) THEN "MEDIUM"
    ELSE "LOW"

OcrHttpError(code) ==
    [status |-> code, odoo_amount |-> <<>>, verified_amount |-> <<>>,
     amount_matched |-> FALSE, discrepancy_amount |-> <<>>, risk_level |-> ""]

\* validate_ocr, lines 25-119
validate_ocr(request) ==
    IF request.currency \notin VALID_CURRENCIES THEN OcrHttpError(400)
    ELSE IF request.employee_claim < 0 \/ request.employee_claim > MaxAmountCents
    THEN OcrHttpError(400)
    ELSE IF request.total_amount = <<>>
    THEN [status |-> 200, odoo_amount |-> <<>>, verified_amount |-> <<>>,
          amount_matched |-> FALSE, discrepancy_amount |-> <<>>,
          risk_level |-> "CRITICAL"]
    ELSE LET odoo_amt == normalize_amount(request.total_amount[1], request.currency)
             claimed_amt == normalize_amount(request.employee_claim, request.currency)
         IN  IF AbsCents(odoo_amt, claimed_amt) <= 1
             THEN [status |-> 200, odoo_amount |-> <<odoo_amt>>,
                   verified_amount |-> <<odoo_amt>>, amount_matched |-> TRUE,
                   discrepancy_amount |-> <<0>>, risk_level |-> "MATCH"]
             ELSE [status |-> 200, odoo_amount |-> <<odoo_amt>>,
                   verified_amount |-> <<odoo_amt>>, amount_matched |-> FALSE,
                   discrepancy_amount |-> <<AbsCents(odoo_amt, claimed_amt)>>,
                   risk_level |-> RiskOf(odoo_amt, claimed_amt)]

OcrRequests ==
    {[total_amount |-> t, employee_claim |-> c, currency |-> cur] :
        t \in {<<>>} \cup {<<a>> : a \in OcrAmounts},
        c \in ClaimChoices, cur \in OcrCurrencies}

InitOcr ==
    /\ clock = 0
    /\ InitStoreVars
    /\ InitBreakerVars
    /\ InitAssemblyVars
    /\ max_attempts = DefaultMaxAttempts
    /\ ocr_input \in OcrRequests
    /\ ocr_output = NoOcrResponse

\* POST /validate-ocr with ocr_input
ValidateOcr ==
    /\ ocr_output = NoOcrResponse
    /\ ocr_output' = validate_ocr(ocr_input)
    /\ UNCHANGED <<clock, storeVars, breakerVars, assemblyVars, ocr_input>>

NextOcr == ValidateOcr

SpecOcr == InitOcr /\ [][NextOcr]_vars

----------------------------------------------------------------------------
(* Properties *)

SevenDays == 7 * 24 * 3600
OneDay == 24 * 3600

C2_BreakerOpensAfterThreeFailures ==
    fetch_failures >= FailureThreshold => breaker.state = "OPEN"

\* C3: the fetched_at stored for a company never decreases from one write of
\* the cache entry to the next.
C3_FetchedAtNeverDecreases ==
    [][\A key \in DOMAIN policy_cache \cap DOMAIN policy_cache' :
          policy_cache'[key][2] >= policy_cache[key][2]]_vars

\* C4: from CLOSED the breaker enters OPEN exactly with the failure that makes
\* failure_threshold failures without a success between them; a call made
\* while the breaker is OPEN and less than the cooldown has passed since the
\* last failure raises without invoking the operation and changes nothing.
C4_TripsAtThreshold ==
    [][/\ breaker.state = "CLOSED" =>
            ((breaker'.state = "OPEN") <=>
                (consecutive' = consecutive + 1 /\ consecutive' = 3))
       /\ \A f \in Fetchers :
            (/\ bpc[f] = "loop" /\ bpc'[f] # "loop"
             /\ invoked'[f] = invoked[f] + 1
             /\ breaker.state = "OPEN"
             /\ clock - breaker.last_failure_time < 60)
            => (/\ bpc'[f] = "done"
                /\ wresult'[f] = [kind |-> "raise", error |-> "CircuitOpen"]
                /\ breaker' = breaker)]_vars

\* the breaker is OPEN after three failures and has rejected a call
C4_Witness ==
    /\ breaker.state = "OPEN"
    /\ consecutive = 3
    /\ \E f \in Fetchers : wresult[f].error = "CircuitOpen"

\* C5: at most one invocation of the operation that was started in HALF_OPEN
\* is in flight.
C5_SingleProbe ==
    Cardinality({f \in Fetchers : bpc[f] = "invoking" /\ entered[f] = "HALF_OPEN"}) <= 1

C7_FreshIdempotence ==
    [][\A r \in Requests :
         (pc[r] = "idle" /\ pc'[r] # "idle") =>
            LET key == CacheKey(company'[r])
            IN  (key \in DOMAIN newest /\ clock - newest[key][2] < OneDay)
                => (/\ pc'[r] = "done"
                    /\ ret'[r].kind = "value"
                    /\ ret'[r].value = newest[key][1])]_vars

\* C8: a call that ends in Safe Mode returns a PolicyData with cache_ttl = 0
\* and leaves both cache tiers as they were; the next call for the company,
\* made before anything else happened to the company's entries, goes to the
\* remote fetch.
C8_SafeModeNotCached ==
    [][\A r \in Requests :
         /\ (pc[r] = "fallback" /\ ret'[r].path = "SAFE_MODE")
               => (/\ ret'[r].value.cache_ttl = 0
                   /\ policy_cache' = policy_cache
                   /\ last_known_good' = last_known_good)
         /\ (pc[r] = "idle" /\ pc'[r] # "idle" /\ after_safe_mode[company'[r]])
               => pc'[r] = "fetch"]_vars

\* a call has returned the Safe Mode policy and nothing happened since
C8_Witness ==
    \E r \in Requests :
        /\ pc[r] = "done"
        /\ ret[r].path = "SAFE_MODE"
        /\ after_safe_mode[company[r]]

\* C9: when the fetch failed, the company has no cached entry younger than 7
\* days and no last-known-good entry, and the fallback file is missing or
\* does not parse, get_policy raises: no PolicyData is returned and both cache
\* tiers stay as they were.
C9_SafeModeFailureRaises ==
    [][\A r \in Requests :
         (/\ pc[r] = "fallback" /\ pc'[r] = "done"
          /\ ~(CacheKey(company[r]) \in DOMAIN policy_cache
               /\ now[r] - policy_cache[CacheKey(company[r])][2] < SevenDays)
          /\ CacheKey(company[r]) \notin DOMAIN last_known_good
          /\ (~artifact'[r].exists \/ ~artifact'[r].parses))
         => (/\ ret'[r].kind = "raise"
             /\ ret'[r].value = NoPolicy
             /\ policy_cache' = policy_cache
             /\ last_known_good' = last_known_good)]_vars

\* a call has raised the error of the fallback loader
C9_Witness ==
    \E r \in Requests :
        /\ pc[r] = "done"
        /\ ret[r].kind = "raise"
        /\ artifact[r] # NotRead
        /\ ~artifact[r].exists

\* C10: a request whose get_policy call raised is never answered with a
\* normal response.
C10_FailureIsVisible ==
    [][\A r \in Requests :
         (pc[r] = "done" /\ ret[r].kind = "raise" /\ pc'[r] = "responded")
            => response'[r].status # 200]_vars

\* C11: every PolicyData that get_policy returns, on any path, has a non-empty
\* category list and a default_category that is the name of a category in
\* the list.
C11_DefaultResolves ==
    \A r \in Requests :
        ret[r].kind = "value" =>
            /\ ret[r].value.categories # <<>>
            /\ \E i \in 1..Len(ret[r].value.categories) :
                  ret[r].value.categories[i].name = ret[r].value.default_category

\* C12: what get_policy returns to its caller tells the degradation level of
\* the path it took (FRESH for a fresh hit or a successful fetch, STALE,
\* LAST_KNOWN_GOOD, SAFE_MODE): two calls that took paths of different levels
\* return different things.  The return value of get_policy is the PolicyData
\* alone; the path is history.
C12_LevelReturned ==
    \A r1, r2 \in Requests :
        LET Level(path) == IF path = "FETCHED" THEN "FRESH" ELSE path
        IN  (/\ ret[r1].kind = "value" /\ ret[r2].kind = "value"
             /\ Level(ret[r1].path) # Level(ret[r2].path))
            => ret[r1].value # ret[r2].value

\* C13: a company that has an entry in policy_cache has an entry in
\* _last_known_good holding the same PolicyData, in every state in which no
\* call for the company stands between the write of line 215 and the write
\* of line 218.
C13_Lockstep ==
    \A c \in Companies :
        (/\ CacheKey(c) \in DOMAIN policy_cache
         /\ ~\E r \in Requests : pc[r] = "write_lkg" /\ company[r] = c)
        => (/\ CacheKey(c) \in DOMAIN last_known_good
            /\ last_known_good[CacheKey(c)] = policy_cache[CacheKey(c)][1])

C15_EntriesChangeOnlyByFetch ==
    [][/\ DOMAIN last_known_good \subseteq DOMAIN last_known_good'
       /\ \A k \in DOMAIN last_known_good' :
            (k \notin DOMAIN last_known_good \/ last_known_good'[k] # last_known_good[k])
            => \E r \in Requests :
                  /\ pc[r] = "write_lkg" /\ pc'[r] = "done"
                  /\ k = CacheKey(company[r])
                  /\ last_known_good'[k] = policy_data[r]
                  /\ ret'[r] = Returned(policy_data[r], "FETCHED")
       /\ \A k \in DOMAIN policy_cache' :
            (k \notin DOMAIN policy_cache \/ policy_cache'[k] # policy_cache[k])
            => \E r \in Requests :
                  /\ pc[r] = "write_fresh" /\ pc'[r] = "write_lkg"
                  /\ k = CacheKey(company[r])
                  /\ policy_cache'[k][1] = policy_data[r]
       /\ ~(DOMAIN policy_cache \subseteq DOMAIN policy_cache')
            => (InvalidateAll \/ \E c \in Tenants : InvalidateCompany(c))
       /\ \A r \in Requests :
            (pc[r] \in {"idle", "fetch", "fallback"} /\ pc'[r] # pc[r])
            => (policy_cache' = policy_cache /\ last_known_good' = last_known_good)]_vars

\* after an invalidation a call was answered from the last-known-good entry
C15_Witness ==
    \E r \in Requests :
        /\ pc[r] = "done"
        /\ ret[r].path = "LAST_KNOWN_GOOD"
        /\ CacheKey(company[r]) \notin DOMAIN policy_cache
        /\ last_known_good[CacheKey(company[r])] = ret[r].value

\* C16: a call of the retry wrapper that ends more than timeout_seconds after
\* it started ends with the timeout error of the wrapper: it returns no
\* result and raises no other error once the budget is exceeded.
C16_OverallTimeout ==
    [][\A f \in Fetchers :
         (/\ max_attempts >= 1
          /\ bpc[f] # "done" /\ bpc'[f] = "done"
          /\ clock - start_time[f] > 120)
         => wresult'[f] = [kind |-> "raise", error |-> "PlatformTimeout"]]_vars

C18_AuthAndNotFoundNotRetried ==
    [][\A f \in Fetchers, e \in {"HTTPError", "Exception"} :
         OpFails(f, e) => (/\ bpc'[f] = "done"
                           /\ wresult'[f] = [kind |-> "raise", error |-> e]
                           /\ sleeps'[f] = sleeps[f])]_vars

C20_FetchFailureNotPropagated ==
    [][\A r \in Requests :
         /\ (pc[r] = "fetch" /\ pc'[r] # "fetch")
               => (pc'[r] \in {"write_fresh", "fallback"} /\ ret'[r].kind = "none")
         /\ ret[r].kind = "raise"
               => (/\ artifact[r] # NotRead
                   /\ (~artifact[r].exists \/ ~artifact[r].parses)
                   /\ ret[r].error = IF artifact[r].exists THEN "ValueError"
                                     ELSE "FileNotFoundError")]_vars

\* a fetch failed with an error that is not transient and the call was
\* answered by the fallback chain
C20_Witness ==
    \E r \in Requests :
        /\ pc[r] = "done"
        /\ ret[r].kind = "value"
        /\ ret[r].path \in {"STALE", "LAST_KNOWN_GOOD", "SAFE_MODE"}
        /\ outbound[r] = 1
        /\ fetch_failures = 0
        /\ \A r2 \in Requests \ {r} : pc[r2] = "idle"

\* C21: when every one of the max_attempts attempts (max_attempts >= 1) of a
\* call fails with a transient error and the overall timeout does not
\* intervene, the call raises the transient error of its last attempt: the
\* failure of the max_attempts-th invocation with network error e ends the
\* call raising e, whatever the earlier attempts raised.
C21_LastTransientErrorRaised ==
    [][\A f \in Fetchers, e \in NetworkErrors :
         (OpFails(f, e) /\ max_attempts >= 1 /\ invoked[f] = max_attempts)
            => /\ bpc'[f] = "done"
               /\ wresult'[f] = [kind |-> "raise", error |-> e]]_vars

\* two attempts were made, the first one slept after, and the call raised the
\* HTTPError of the second attempt
C21_Witness ==
    \E f \in Fetchers :
        /\ max_attempts = 2
        /\ bpc[f] = "done"
        /\ invoked[f] = 2
        /\ sleeps[f] = 1
        /\ attempt[f] = 2
        /\ last_exception[f] = "HTTPError"
        /\ wresult[f] = [kind |-> "raise", error |-> "HTTPError"]

\* C22: validate_ocr classifies by the absolute difference d between the OCR
\* amount and the employee claim, both given in whole cents: d <= 0.01 is
\* MATCH with amount_matched true and discrepancy_amount 0, 0.01 < d <= 5.00
\* is LOW, 5.00 < d <= 50.00 is MEDIUM, 50.00 < d <= 100.00 is HIGH,
\* d > 100.00 is CRITICAL; a request without OCR amount is CRITICAL with no
\* verified_amount.
C22_RiskClassification ==
    ocr_output.status = 200 =>
        IF ocr_input.total_amount = <<>>
        THEN ocr_output.risk_level = "CRITICAL" /\ ocr_output.verified_amount = <<>>
        ELSE LET d == AbsCents(ocr_input.total_amount[1], ocr_input.employee_claim)
             IN  /\ d <= 1 => /\ ocr_output.risk_level = "MATCH"
                              /\ ocr_output.amount_matched
                              /\ ocr_output.discrepancy_amount = <<0>>
                 /\ (1 < d /\ d <= 500) => ocr_output.risk_level = "LOW"
                 /\ (500 < d /\ d <= 5000) => ocr_output.risk_level = "MEDIUM"
                 /\ (5000 < d /\ d <= 10000) => ocr_output.risk_level = "HIGH"
                 /\ d > 10000 => ocr_output.risk_level = "CRITICAL"

\* C23: category names are unique within every PolicyData produced: whatever
\* the index contains (the same name in two rows, a row named 'Other'), no
\* two categories of the assembled policy have the same name.
C23_UniqueCategoryNames ==
    (asm_output # NoAssembly /\ ~asm_output.raised) =>
        LET cats == asm_output.policy_data.categories
        IN  \A i, j \in 1..Len(cats) : cats[i].name = cats[j].name => i = j

\* C24: in state OPEN, CircuitBreaker.call refuses the call exactly when
\* now - last_failure_time < cooldown; when now - last_failure_time >=
\* cooldown, the boundary included, the breaker moves to HALF_OPEN and the
\* operation is invoked.
C24_CooldownBoundary ==
    [][\A f \in Fetchers :
         (Attempt(f) /\ invoked'[f] = invoked[f] + 1 /\ breaker.state = "OPEN")
            => IF clock - breaker.last_failure_time < TimeoutDuration
               THEN /\ bpc'[f] = "done"
                    /\ wresult'[f] = [kind |-> "raise", error |-> "CircuitOpen"]
               ELSE /\ breaker'.state = "HALF_OPEN"
                    /\ bpc'[f] = "invoking"]_vars

\* C28: in every reachable state, breaker state OPEN or HALF_OPEN implies
\* failure_count >= failure_threshold, also when calls of several threads
\* overlap.
C28_OpenImpliesThreshold ==
    breaker.state \in {"OPEN", "HALF_OPEN"} => breaker.failure_count >= FailureThreshold

\* C25: a call that entered CircuitBreaker.call in state HALF_OPEN invokes
\* the operation once; if the operation succeeds the breaker becomes CLOSED
\* with failure_count 0; if it fails the breaker becomes OPEN again with
\* last_failure_time set to the time of that failure.
C25_HalfOpenProbe ==
    [][\A f \in Fetchers :
         entered[f] = "HALF_OPEN" =>
            /\ OpSucceeds(f) => /\ breaker'.state = "CLOSED"
                                /\ breaker'.failure_count = 0
            /\ \A e \in OpErrors :
                 OpFails(f, e) => /\ breaker'.state = "OPEN"
                                  /\ breaker'.last_failure_time = clock]_vars

\* C29: a call refused by the OPEN breaker changes nothing in the breaker:
\* state, failure_count and last_failure_time are the same after the refusal
\* as before it.
C29_RejectionChangesNothing ==
    [][\A f \in Fetchers :
         (Attempt(f) /\ wresult'[f] = [kind |-> "raise", error |-> "CircuitOpen"])
            => /\ breaker.state = "OPEN"
               /\ breaker'.state = breaker.state
               /\ breaker'.failure_count = breaker.failure_count
               /\ breaker'.last_failure_time = breaker.last_failure_time]_vars

\* a call was refused on its first pass, within the cooldown of a breaker
\* that another call opened
C29_Witness ==
    \E f \in Fetchers :
        /\ bpc[f] = "done"
        /\ wresult[f] = [kind |-> "raise", error |-> "CircuitOpen"]
        /\ invoked[f] = 1
        /\ sleeps[f] = 0
        /\ breaker.state = "OPEN"
        /\ breaker.failure_count >= FailureThreshold
        /\ clock - breaker.last_failure_time <= TimeoutDuration

\* C27: get_policy returns a degraded result (a cached entry aged 24 hours or
\* more, the last-known-good entry, or the Safe Mode policy) only after a
\* remote fetch attempted in that same call has failed; and the Safe Mode
\* policy only when, in addition, the company has neither a cached entry
\* younger than 7 days nor a last-known-good entry.  A result returned
\* without a fetch is a cached entry younger than 24 hours.
C27_DegradedOnlyAfterFailedFetch ==
    [][\A r \in Requests :
         LET key == CacheKey(company[r])
             degraded == {"STALE", "LAST_KNOWN_GOOD", "SAFE_MODE"}
         IN  /\ (ret[r].path \notin degraded /\ ret'[r].path \in degraded)
                   => (pc[r] = "fallback" /\ outbound[r] >= 1)
             /\ (pc[r] # "fallback" /\ pc'[r] = "fallback")
                   => (FetchFails(r) /\ outbound'[r] = outbound[r] + 1)
             /\ (ret[r].kind = "none" /\ ret'[r].kind = "value" /\ outbound'[r] = 0)
                   => (/\ CacheKey(company'[r]) \in DOMAIN policy_cache
                       /\ ret'[r].value = policy_cache[CacheKey(company'[r])][1]
                       /\ clock - policy_cache[CacheKey(company'[r])][2] < OneDay)
             /\ (ret[r].path # "SAFE_MODE" /\ ret'[r].path = "SAFE_MODE")
                   => (/\ ~(key \in DOMAIN policy_cache
                            /\ clock - policy_cache[key][2] < SevenDays)
                       /\ key \notin DOMAIN last_known_good)]_vars

\* a call whose one fetch failed has returned the last-known-good entry, the
\* cache holding no entry of the company
C27_Witness ==
    \E r \in Requests :
        /\ pc[r] = "done"
        /\ ret[r].path = "LAST_KNOWN_GOOD"
        /\ outbound[r] = 1
        /\ CacheKey(company[r]) \notin DOMAIN policy_cache

C26_EventuallyClosed ==
    /\ breaker.state = "CLOSED"
    /\ (/\ []<><<\E f \in Fetchers :
                    Attempt(f) /\ invoked'[f] = invoked[f] + 1>>_vars
        /\ <>[][\A f \in Fetchers, e \in OpErrors : ~OpFails(f, e)]_vars)
          => <>[](breaker.state = "CLOSED")

\* the probe of a breaker that had opened is running: the breaker is
\* HALF_OPEN after its cooldown, the other fetcher is not calling
C26_Witness ==
    \E f \in Fetchers :
        /\ breaker.state = "HALF_OPEN"
        /\ breaker.failure_count >= FailureThreshold
        /\ breaker.last_failure_time < 0 - TimeoutDuration
        /\ bpc[f] = "invoking"
        /\ entered[f] = "HALF_OPEN"
        /\ \A g \in Fetchers \ {f} : bpc[g] = "idle"

====
